---- MODULE Spec2Model ----
(***************************************************************************)
(* Recursive-descent parser of src/src/Parser.cpp together with the AST    *)
(* node model of src/src/AST.h.                                            *)
(*                                                                         *)
(* The statement loop of Parser::parseProgram is the state machine: one    *)
(* action per case of its switch, one for the loop exit that returns the   *)
(* Program and one for the _error label.  Every parse routine below the    *)
(* statement loop is an operator from a parser state (current token,       *)
(* lexer position, haveElse, diagnostics) to a node and a parser state.    *)
(***************************************************************************)
EXTENDS Integers, Sequences, FiniteSets, TLC

VARIABLES src, input, Tok, BufferPtr, haveElse, data, Res, pc, errs, fails, observed

vars == <<src, input, Tok, BufferPtr, haveElse, data, Res, pc, errs, fails, observed>>

----------------------------------------------------------------------------
(* Tokens.  A token is its spelling; Kind gives Token::TokenKind.          *)

Idents == {"a", "b", "x", "y", "z"}

Numbers == {"1", "2", "3", "5"}

Kind(t) == IF t \in Idents THEN "ident" ELSE IF t \in Numbers THEN "number" ELSE t

----------------------------------------------------------------------------
(* AST nodes (AST.h).  The absent signal (nullptr) is the node Null.       *)

Null == [type |-> "null"]

Program(d) == [type |-> "Program", data |-> d]

Declaration(Vars, Values) == [type |-> "Declaration", Vars |-> Vars, Values |-> Values]

Final(K, Val) == [type |-> "Final", Kind |-> K, Val |-> Val]

BinaryOp(Op, L, R) == [type |-> "BinaryOp", Op |-> Op, Left |-> L, Right |-> R]

UnaryOp(Op, I) == [type |-> "UnaryOp", Op |-> Op, Ident |-> I]

SignedNumber(Sgn, V) == [type |-> "SignedNumber", s |-> Sgn, Value |-> V]

NegExpr(E) == [type |-> "NegExpr", expr |-> E]

Assignment(L, RE, AK, RL) ==
    [type |-> "Assignment", Left |-> L, RightExpr |-> RE, AK |-> AK, RightLogicExpr |-> RL]

(* Comparison's constructor initialises the member Op from itself          *)
(* (": Op(Op)", the parameter is spelled Opm), so the member is never      *)
(* written: it holds the marker Indeterminate and a read of it may give    *)
(* any enumerator.  Opm records the constructor argument that is dropped.  *)
Indeterminate == "indeterminate"

ComparisonOperators ==
    {"Equal", "Not_equal", "Greater", "Less", "Greater_equal", "Less_equal",
     "True", "False", "Ident"}

Comparison(L, R, Opm, V) ==
    [type |-> "Comparison", Left |-> L, Right |-> R, Op |-> Indeterminate,
     Opm |-> Opm, Value |-> V]

LogicalExpr(L, R, Op) == [type |-> "LogicalExpr", Left |-> L, Right |-> R, Op |-> Op]

elifStmt(Cond, assignments) == [type |-> "elifStmt", Cond |-> Cond, assignments |-> assignments]

IfStmt(Cond, ifA, elseA, elifs) ==
    [type |-> "IfStmt", Cond |-> Cond, ifAssignments |-> ifA,
     elseAssignments |-> elseA, elifStmts |-> elifs]

----------------------------------------------------------------------------
(* Parser state threaded through the parse routines, and the token source. *)
(* Tok is the parser's current token; BufferPtr is the lexer's position,   *)
(* the index in input of the token the next advance() delivers.            *)

St == [Tok |-> Tok, BufferPtr |-> BufferPtr, haveElse |-> haveElse,
       errs |-> errs, fails |-> fails]

(* advance(): the lexer delivers its next token into Tok; at the end of    *)
(* the input it keeps delivering the end-of-input sentinel.                *)
advance(S) ==
    [S EXCEPT !.Tok = input[S.BufferPtr],
              !.BufferPtr = IF S.BufferPtr < Len(input) THEN S.BufferPtr + 1 ELSE S.BufferPtr]

(* error(): one diagnostic.                                                *)
error(S) == [S EXCEPT !.errs = @ + 1]

(* expect(Kind) returns true (and reports) when the current token is not   *)
(* of that kind.                                                           *)
expectFails(S, K) == Kind(S.Tok) # K

expect(S, K) == IF expectFails(S, K) THEN error(S) ELSE S

(* consume(Kind): expect, then advance on success.                         *)
consume(S, K) == IF expectFails(S, K) THEN error(S) ELSE advance(S)

(* The loop at every _error label.                                         *)
RECURSIVE Drain(_)
Drain(S) == IF Kind(S.Tok) # "eoi" THEN Drain(advance(S)) ELSE S

(* A routine's return through its _error label, and its normal return.     *)
Fail(S) == [node |-> Null, S |-> [Drain(S) EXCEPT !.fails = @ + 1]]

Ret(n, S) == [node |-> n, S |-> S]

----------------------------------------------------------------------------------------------------------------------------------------
(* Arithmetic expressions: parseExpr, parseTerm, parseFactor, parseFinal.  *)
(* Token kinds are written by their spelling: "+" is Token::plus, "++" is  *)
(* Token::plus_plus, "=" is Token::assign, "==" is Token::eq, and so on.   *)
(* A routine that goes on after a call it makes is written as the operator *)
(* that makes the call and the operator that takes the call's result:      *)
(* parseExpr calls parseTerm and hands its result to parseExprLeft.        *)

RECURSIVE parseExpr(_), parseExprLeft(_), parseExprLoop(_, _), parseExprRight(_, _, _)
RECURSIVE parseTerm(_), parseTermLeft(_), parseTermLoop(_, _), parseTermRight(_, _, _)
RECURSIVE parseFactor(_), parseFactorLeft(_), parseFactorLoop(_, _), parseFactorRight(_, _)
RECURSIVE parseFinal(_), parseFinalParen(_, _)

(* parseFinal after the parseExpr of a parenthesized expression R: the     *)
(* node is R itself, or NegExpr(R) after a unary minus, if consume(r_paren) *)
(* succeeds.                                                               *)
parseFinalParen(negated, R) ==
    IF R.node = Null THEN Fail(R.S)
    ELSE IF expectFails(R.S, ")") THEN Fail(consume(R.S, ")"))
    ELSE Ret(IF negated THEN NegExpr(R.node) ELSE R.node, consume(R.S, ")"))

parseFinal(S) ==
    LET k  == Kind(S.Tok)
        S1 == advance(S)
    IN  CASE k = "number" -> Ret(Final("Number", S.Tok), S1)
          [] k = "ident" ->
                IF Kind(S1.Tok) = "++" THEN Ret(UnaryOp("Plus_plus", S.Tok), advance(S1))
                ELSE IF Kind(S1.Tok) = "--" THEN Ret(UnaryOp("Minus_minus", S.Tok), advance(S1))
                ELSE Ret(Final("Ident", S.Tok), S1)
          [] k = "+" ->
                IF Kind(S1.Tok) = "number"
                THEN Ret(SignedNumber("Plus", S1.Tok), advance(S1))
                ELSE Fail(S1)
          [] k = "-" ->
                IF Kind(S1.Tok) = "number"
                THEN Ret(SignedNumber("Minus", S1.Tok), advance(S1))
                ELSE IF Kind(S1.Tok) = "("
                THEN parseFinalParen(TRUE, parseExpr(advance(S1)))
                ELSE Fail(S1)
          [] k = "(" -> parseFinalParen(FALSE, parseExpr(S1))
          [] OTHER -> Fail(error(S))

parseFactorRight(Left, R) ==
    IF R.node = Null THEN Fail(R.S)
    ELSE parseFactorLoop(BinaryOp("Exp", Left, R.node), R.S)

(* Variant of parseFactorLoop whose right operand is a Final, which makes   *)
(* ^ left-associative.                                                     *)
parseFactorLoop_LeftAssoc(Left, S) ==
    IF Kind(S.Tok) = "^"
    THEN parseFactorRight(Left, parseFinal(advance(S)))
    ELSE Ret(Left, S)

parseFactorLoop(Left, S) ==
    IF Kind(S.Tok) = "^"
    THEN parseFactorRight(Left, parseFactor(advance(S)))
    ELSE Ret(Left, S)

parseFactorLeft(L) == IF L.node = Null THEN Fail(L.S) ELSE parseFactorLoop(L.node, L.S)

parseFactor(S) == parseFactorLeft(parseFinal(S))

TermOp(k) == IF k = "*" THEN "Mul" ELSE IF k = "/" THEN "Div" ELSE "Mod"

parseTermRight(Op, Left, R) ==
    IF R.node = Null THEN Fail(R.S)
    ELSE parseTermLoop(BinaryOp(Op, Left, R.node), R.S)

parseTermLoop(Left, S) ==
    IF Kind(S.Tok) \in {"*", "%", "/"}
    THEN parseTermRight(TermOp(Kind(S.Tok)), Left, parseFactor(advance(S)))
    ELSE Ret(Left, S)

parseTermLeft(L) == IF L.node = Null THEN Fail(L.S) ELSE parseTermLoop(L.node, L.S)

parseTerm(S) == parseTermLeft(parseFactor(S))

ExprOp(k) == IF k = "+" THEN "Plus" ELSE "Minus"

parseExprRight(Op, Left, R) ==
    IF R.node = Null THEN Fail(R.S)
    ELSE parseExprLoop(BinaryOp(Op, Left, R.node), R.S)

parseExprLoop(Left, S) ==
    IF Kind(S.Tok) \in {"+", "-"}
    THEN parseExprRight(ExprOp(Kind(S.Tok)), Left, parseTerm(advance(S)))
    ELSE Ret(Left, S)

parseExprLeft(L) == IF L.node = Null THEN Fail(L.S) ELSE parseExprLoop(L.node, L.S)

parseExpr(S) == parseExprLeft(parseTerm(S))

----------------------------------------------------------------------------
(* Logic expressions: parseLogic, parseComparison.                         *)

RECURSIVE parseLogic(_), parseLogicLeft(_), parseLogicLoop(_, _), parseLogicRight(_, _, _)
RECURSIVE parseComparison(_), parseComparisonParen(_)

RelOp(k) ==
    CASE k = "==" -> "Equal"
      [] k = "!=" -> "Not_equal"
      [] k = ">"  -> "Greater"
      [] k = "<"  -> "Less"
      [] k = ">=" -> "Greater_equal"
      [] k = "<=" -> "Less_equal"

(* parseComparison after the parseLogic of a parenthesized logic           *)
(* expression.                                                             *)
parseComparisonParen(R) ==
    IF R.node = Null THEN Fail(R.S)
    ELSE IF expectFails(R.S, ")") THEN Fail(consume(R.S, ")"))
    ELSE Ret(R.node, consume(R.S, ")"))

(* parseComparison after its right operand; Op is the relational operator  *)
(* read, Tok.getText() is the text of the token behind the right operand.  *)
parseComparisonRight(Left, Op, R) ==
    IF R.node = Null THEN Fail(R.S)
    ELSE Ret(Comparison(Left, R.node, Op, R.S.Tok), R.S)

(* parseComparison after its left operand.                                 *)
parseComparisonLeft(L) ==
    IF L.node = Null THEN Fail(L.S)
    ELSE IF Kind(L.S.Tok) \notin {"==", "!=", ">", "<", ">=", "<="} THEN Fail(error(L.S))
    ELSE parseComparisonRight(L.node, RelOp(Kind(L.S.Tok)), parseExpr(advance(L.S)))

parseComparison(S) ==
    LET k == Kind(S.Tok)
    IN  IF k = "(" THEN parseComparisonParen(parseLogic(advance(S)))
        ELSE IF k = "true" THEN Ret(Comparison(Null, Null, "True", S.Tok), advance(S))
        ELSE IF k = "false" THEN Ret(Comparison(Null, Null, "False", S.Tok), advance(S))
        ELSE IF k = "ident" THEN Ret(Comparison(Null, Null, "Ident", S.Tok), advance(S))
        ELSE parseComparisonLeft(parseExpr(S))

LogicOp(k) == IF k = "&&" THEN "And" ELSE "Or"

parseLogicRight(Op, Left, R) ==
    IF R.node = Null THEN Fail(R.S)
    ELSE parseLogicLoop(LogicalExpr(Left, R.node, Op), R.S)

parseLogicLoop(Left, S) ==
    IF Kind(S.Tok) \in {"&&", "||"}
    THEN parseLogicRight(LogicOp(Kind(S.Tok)), Left, parseComparison(advance(S)))
    ELSE Ret(Left, S)

parseLogicLeft(L) == IF L.node = Null THEN Fail(L.S) ELSE parseLogicLoop(L.node, L.S)

parseLogic(S) == parseLogicLeft(parseComparison(S))

----------------------------------------------------------------------------
(* Statements below the statement loop: parseUnary, parseAssign,           *)
(* parseIntDec, parseBoolDec, parseIf.                                     *)

parseUnary(S) ==
    IF expectFails(S, "ident") THEN Fail(expect(S, "ident"))
    ELSE LET S1 == advance(S)
         IN  IF Kind(S1.Tok) = "++" THEN Ret(UnaryOp("Plus_plus", S.Tok), advance(S1))
             ELSE IF Kind(S1.Tok) = "--" THEN Ret(UnaryOp("Minus_minus", S.Tok), advance(S1))
             ELSE Fail(S1)

AssignKind(k) ==
    CASE k = "="  -> "Assign"
      [] k = "+=" -> "Plus_assign"
      [] k = "-=" -> "Minus_assign"
      [] k = "*=" -> "Star_assign"
      [] k = "/=" -> "Slash_assign"

(* parseAssign after E = parseExpr().                                      *)
parseAssignExpr(F, AK, E) ==
    IF E.node # Null THEN Ret(Assignment(F, E.node, AK, Null), E.S) ELSE Fail(E.S)

(* parseAssign after L = parseLogic(), the trial parse behind `=`: the     *)
(* Assignment with the logic right-hand side, or Tok = prev_Tok, advance() *)
(* and the right-hand side as an arithmetic expression.                    *)
parseAssignLogic(F, prev_Tok, L) ==
    IF L.node # Null THEN Ret(Assignment(F, Null, "Assign", L.node), L.S)
    ELSE parseAssignExpr(F, "Assign", parseExpr(advance([L.S EXCEPT !.Tok = prev_Tok])))

(* parseAssign after F = parseFinal().                                     *)
parseAssignFinal(F) ==
    IF F.node = Null THEN Fail(F.S)
    ELSE IF Kind(F.S.Tok) = "=" THEN parseAssignLogic(F.node, F.S.Tok, parseLogic(advance(F.S)))
    ELSE IF Kind(F.S.Tok) \in {"+=", "-=", "*=", "/="}
    THEN parseAssignExpr(F.node, AssignKind(Kind(F.S.Tok)), parseExpr(advance(F.S)))
    ELSE Fail(error(F.S))

parseAssign(S) == parseAssignFinal(parseFinal(S))

(* Declarations.  parseIntDec and parseBoolDec are the same text up to the *)
(* type keyword and the routine that parses an initializer.                *)
parseInitializer(kw, S) == IF kw = "int" THEN parseExpr(S) ELSE parseLogic(S)

(* while (Tok.is(Token::comma)) over the declared names.                   *)
RECURSIVE parseDecNames(_, _, _)
parseDecNames(Vars, count, S) ==
    IF Kind(S.Tok) = ","
    THEN IF expectFails(advance(S), "ident")
         THEN [ok |-> FALSE, Vars |-> Vars, count |-> count, S |-> expect(advance(S), "ident")]
         ELSE parseDecNames(Append(Vars, advance(S).Tok), count + 1, advance(advance(S)))
    ELSE [ok |-> TRUE, Vars |-> Vars, count |-> count, S |-> S]

RECURSIVE parseDecValues(_, _, _, _), parseDecValue(_, _, _, _)

(* E = parseExpr() or parseLogic() of an initializer: pushed, count--, and *)
(* on with the loop over the initializers.                                 *)
parseDecValue(kw, Values, count, E) ==
    IF E.node # Null
    THEN parseDecValues(kw, Append(Values, E.node), count - 1, E.S)
    ELSE [ok |-> FALSE, Values |-> Values, count |-> count, S |-> E.S]

(* Variant of parseDecValues without the test count == 0.                  *)
parseDecValues_NoCountCheck(kw, Values, count, S) ==
    IF Kind(S.Tok) = ","
    THEN parseDecValue(kw, Values, count, parseInitializer(kw, advance(S)))
    ELSE [ok |-> TRUE, Values |-> Values, count |-> count, S |-> S]

(* while (Tok.is(Token::comma)) over the initializers after the first.     *)
parseDecValues(kw, Values, count, S) ==
    IF Kind(S.Tok) = ","
    THEN IF count = 0
         THEN [ok |-> FALSE, Values |-> Values, count |-> count, S |-> error(S)]
         ELSE parseDecValue(kw, Values, count, parseInitializer(kw, advance(S)))
    ELSE [ok |-> TRUE, Values |-> Values, count |-> count, S |-> S]

(* if (Tok.is(Token::assign)) { first initializer; the loop above }        *)
parseDecInit(kw, count, S) ==
    IF Kind(S.Tok) = "="
    THEN parseDecValue(kw, <<>>, count, parseInitializer(kw, advance(S)))
    ELSE [ok |-> TRUE, Values |-> <<>>, count |-> count, S |-> S]

(* The end of a declaration: expect(semicolon), new Declaration.           *)
parseDecEnd(Vars, V) ==
    IF ~V.ok THEN Fail(V.S)
    ELSE IF expectFails(V.S, ";") THEN Fail(expect(V.S, ";"))
    ELSE Ret(Declaration(Vars, V.Values), V.S)

(* A declaration after its names N.                                        *)
parseDecAfterNames(kw, N) ==
    IF ~N.ok THEN Fail(N.S) ELSE parseDecEnd(N.Vars, parseDecInit(kw, N.count, N.S))

parseDec(kw, S) ==
    IF expectFails(S, kw) THEN Fail(expect(S, kw))
    ELSE IF expectFails(advance(S), "ident") THEN Fail(expect(advance(S), "ident"))
    ELSE parseDecAfterNames(kw, parseDecNames(<<advance(S).Tok>>, 1, advance(advance(S))))

parseIntDec(S) == parseDec("int", S)

parseBoolDec(S) == parseDec("bool", S)

(* while (!Tok.is(Token::KW_end)) { parseAssign; expect(semicolon);        *)
(* advance }: the body of an if, elif or else block.                       *)
RECURSIVE parseBlock(_, _), parseBlockAssign(_, _)

(* The loop body after A = parseAssign().                                  *)
parseBlockAssign(assignments, A) ==
    IF A.node = Null THEN [ok |-> FALSE, assignments |-> assignments, S |-> A.S]
    ELSE IF expectFails(A.S, ";")
    THEN [ok |-> FALSE, assignments |-> assignments, S |-> expect(A.S, ";")]
    ELSE parseBlock(Append(assignments, A.node), advance(A.S))

parseBlock(assignments, S) ==
    IF Kind(S.Tok) # "end"
    THEN parseBlockAssign(assignments, parseAssign(S))
    ELSE [ok |-> TRUE, assignments |-> assignments, S |-> S]

(* ':' 'begin' and the block: expect(colon), advance, expect(KW_begin),    *)
(* advance, the loop over the assignments.                                 *)
parseColonBlock(S) ==
    IF expectFails(S, ":") THEN [ok |-> FALSE, assignments |-> <<>>, S |-> expect(S, ":")]
    ELSE IF expectFails(advance(S), "begin")
    THEN [ok |-> FALSE, assignments |-> <<>>, S |-> expect(advance(S), "begin")]
    ELSE parseBlock(<<>>, advance(advance(S)))

(* The condition C of an if or elif together with its block B.             *)
CondBlock(C, B) == [ok |-> B.ok, Cond |-> C, assignments |-> B.assignments, S |-> B.S]

(* After Cond = parseLogic(): ':' 'begin' block.                           *)
parseCondBlockAfter(C) ==
    IF C.node = Null THEN [ok |-> FALSE, Cond |-> Null, assignments |-> <<>>, S |-> C.S]
    ELSE CondBlock(C.node, parseColonBlock(C.S))

(* Logic ':' 'begin' block, the part an if and an elif have in common.     *)
parseCondBlock(S) == parseCondBlockAfter(parseLogic(S))

RECURSIVE parseElifs(_, _), parseElif(_, _)

(* One elif clause after its condition and block B: new elifStmt, pushed,  *)
(* advance() past its `end`.                                               *)
parseElif(elifStmts, B) ==
    IF ~B.ok THEN [ok |-> FALSE, elifStmts |-> elifStmts, S |-> B.S]
    ELSE parseElifs(Append(elifStmts, elifStmt(B.Cond, B.assignments)), advance(B.S))

(* while (Tok.is(Token::KW_elif))                                          *)
parseElifs(elifStmts, S) ==
    IF Kind(S.Tok) = "elif"
    THEN parseElif(elifStmts, parseCondBlock(advance(S)))
    ELSE [ok |-> TRUE, elifStmts |-> elifStmts, S |-> S]

(* if (Tok.is(Token::KW_else)) { haveElse = true; ':' 'begin' block }      *)
parseElse(S) ==
    IF Kind(S.Tok) = "else"
    THEN parseColonBlock(advance([S EXCEPT !.haveElse = TRUE]))
    ELSE [ok |-> TRUE, assignments |-> <<>>, S |-> S]

(* The end of parseIf: new IfStmt(Cond, ifAssignments, elseAssignments,    *)
(* elifStmts).                                                             *)
parseIfEnd(Cond, ifAssignments, elifStmts, L) ==
    IF ~L.ok THEN Fail(L.S)
    ELSE Ret(IfStmt(Cond, ifAssignments, L.assignments, elifStmts), L.S)

(* parseIf after its elif clauses E.                                       *)
parseIfAfterElifs(Cond, ifAssignments, E) ==
    IF ~E.ok THEN Fail(E.S)
    ELSE parseIfEnd(Cond, ifAssignments, E.elifStmts, parseElse(E.S))

(* parseIf after its condition and then-block B: advance() past `end`.     *)
parseIfAfterThen(B) ==
    IF ~B.ok THEN Fail(B.S)
    ELSE parseIfAfterElifs(B.Cond, B.assignments, parseElifs(<<>>, advance(B.S)))

parseIf(S) ==
    IF expectFails([S EXCEPT !.haveElse = FALSE], "if")
    THEN Fail(expect([S EXCEPT !.haveElse = FALSE], "if"))
    ELSE parseIfAfterThen(parseCondBlock(advance([S EXCEPT !.haveElse = FALSE])))

(* case Token::ident of parseProgram after a = parseAssign(): without a    *)
(* semicolon error() and goto _error.  goto _error is the result           *)
(* [node |-> Null] here; the _error label itself is the action ErrorExit.  *)
parseIdentAssign(A) == IF Kind(A.S.Tok) # ";" THEN Ret(Null, error(A.S)) ELSE A

(* case Token::ident of parseProgram after the trial u = parseUnary():     *)
(* the UnaryOp before a semicolon; an error for a UnaryOp before another   *)
(* token; else Tok = prev_token and parseAssign.                           *)
parseIdentUnary(prev_token, U) ==
    IF U.node # Null
    THEN IF Kind(U.S.Tok) = ";" THEN U ELSE Ret(Null, error(U.S))
    ELSE parseIdentAssign(parseAssign([U.S EXCEPT !.Tok = prev_token]))

parseIdentStmt(S) == parseIdentUnary(S.Tok, parseUnary(S))

----------------
(* Bounds of the model.                                                    *)

MaxOps == 2        \* operators in a generated arithmetic expression

MaxExprLen == 3    \* length of an arbitrary sequence over the arithmetic alphabet

MaxLogicOps == 2   \* && and || operators in a generated logic expression

MaxNames == 2      \* declared names in a generated declaration

MaxInits == 3      \* initializers in a generated declaration

MaxBody == 1       \* assignments in a generated block

MaxElifs == 1      \* elif clauses in a generated if statement

MaxStmts == 2      \* statements in a generated multi-statement program

MaxJunk == 2       \* length of an arbitrary token sequence

----------------------------------------------------------------------------
(* Sources.  A source is a sequence of statements; a statement is its      *)
(* token sequence toks, the node type kind the grammar of the language     *)
(* gives it, and wf, whether it is well-formed in that grammar.            *)

SeqsUpTo(S, n) == UNION {[1..k -> S] : k \in 0..n}

RECURSIVE Flat(_)
Flat(ss) == IF ss = <<>> THEN <<>> ELSE Head(ss) \o Flat(Tail(ss))

Stmt(toks, kind, wf) == [toks |-> toks, kind |-> kind, wf |-> wf]

ArithOps == {"+", "-", "*", "/", "%", "^"}

ArithAlphabet == {"1", "x"} \cup ArithOps

(* operand (op operand)*, an operand being a number, an identifier or a    *)
(* signed number: the arithmetic expressions without parentheses.          *)
RECURSIVE IsArith(_)
IsArith(s) ==
    LET n == Len(s)
        signed == n >= 2 /\ s[1] \in {"+", "-"} /\ Kind(s[2]) = "number"
        first == IF signed THEN 2 ELSE 1
    IN  /\ n >= 1
        /\ signed \/ Kind(s[1]) \in {"number", "ident"}
        /\ \/ n = first
           \/ /\ n > first + 1
              /\ s[first + 1] \in ArithOps
              /\ IsArith(SubSeq(s, first + 2, n))

Operands == {<<"1">>, <<"x">>}

RECURSIVE OperandChains(_)
OperandChains(k) ==
    IF k = 0 THEN Operands
    ELSE {c \o <<op>> \o o : c \in OperandChains(k - 1), op \in ArithOps, o \in Operands}

ArithSeqs ==
    SeqsUpTo(ArithAlphabet, MaxExprLen) \cup UNION {OperandChains(k) : k \in 0..MaxOps}

ArithStmts ==
    {Stmt(<<"int", "a", "=">> \o e \o <<";">>, "Declaration", IsArith(e)) : e \in ArithSeqs}

(* Logic expressions: comparisons joined by && and ||.                     *)
Comparands == {<<"true">>, <<"y">>, <<"1", "<", "2">>, <<"x", ">", "1">>}

RECURSIVE ComparandChains(_)
ComparandChains(k) ==
    IF k = 0 THEN Comparands
    ELSE {c \o <<op>> \o o : c \in ComparandChains(k - 1), op \in {"&&", "||"}, o \in Comparands}

LogicSeqs == UNION {ComparandChains(k) : k \in 0..MaxLogicOps}

LogicStmts == {Stmt(<<"bool", "b", "=">> \o e \o <<";">>, "Declaration", TRUE) : e \in LogicSeqs}

(* Declarations with n names and m initializers.                           *)
Initializers(kw) ==
    IF kw = "int" THEN {<<"1">>, <<"2", "+", "3">>} ELSE {<<"true">>, <<"x", "&&", "y">>}

RECURSIVE CommaList(_)
CommaList(ss) ==
    IF Len(ss) = 0 THEN <<>>
    ELSE IF Len(ss) = 1 THEN ss[1]
    ELSE ss[1] \o <<",">> \o CommaList(Tail(ss))

NameLists == {SubSeq(<<"a", "b", "z", "y">>, 1, n) : n \in 1..MaxNames}

DeclToks(kw, names, inits) ==
    <<kw>> \o CommaList([i \in 1..Len(names) |-> <<names[i]>>])
           \o (IF inits = <<>> THEN <<>> ELSE <<"=">> \o CommaList(inits)) \o <<";">>

DeclStmts ==
    {Stmt(DeclToks(d[1], d[2], d[3]), "Declaration", Len(d[3]) \in {0, Len(d[2])}) :
        d \in UNION {{<<kw, names, inits>> : names \in NameLists,
                                              inits \in SeqsUpTo(Initializers(kw), MaxInits)} :
                     kw \in {"int", "bool"}}}

UnaryStmts == {Stmt(<<"x", op, ";">>, "UnaryOp", TRUE) : op \in {"++", "--"}}

(* Assignments, without the terminating semicolon.                         *)
AssignRhs(op) ==
    IF op = "="
    THEN {<<"1">>, <<"y", "+", "z">>, <<"y", "&&", "z">>, <<"true">>, <<"1", ">", "2">>}
    ELSE {<<"1">>, <<"y", "+", "z">>}

Assigns(targets) ==
    UNION {{t \o <<op>> \o r : t \in targets, r \in AssignRhs(op)} :
           op \in {"=", "+=", "-=", "*=", "/="}}

AssignStmts == {Stmt(a \o <<";">>, "Assignment", TRUE) : a \in Assigns({<<"x">>})}

(* Statements of a block: assignments to an identifier, and statements    *)
(* whose left side is not an identifier.                                   *)
BadTargets == {<<"5">>, <<"x", "++">>, <<"-", "1">>, <<"(", "x", ")">>}

BadTargetAssigns == {t \o r : t \in BadTargets, r \in {<<"=", "true">>, <<"+=", "1">>}}

BlockAssigns ==
    {Stmt(a \o <<";">>, "Assignment", TRUE) : a \in Assigns({<<"x">>})}
        \cup {Stmt(a \o <<";">>, "Assignment", FALSE) : a \in BadTargetAssigns}

CoreAssigns ==
    {Stmt(<<"y", "=", "true", ";">>, "Assignment", TRUE),
     Stmt(<<"z", "+=", "2", ";">>, "Assignment", TRUE)}

RichBlocks == SeqsUpTo(BlockAssigns, MaxBody)

CoreBlocks == SeqsUpTo(CoreAssigns, MaxBody)

BlockToks(b) == <<":", "begin">> \o Flat([i \in 1..Len(b) |-> b[i].toks]) \o <<"end">>

BlockWf(b) == \A i \in 1..Len(b) : b[i].wf

IfConds == {<<"true">>, <<"1", "<", "x">>}

ElifConds == {<<"false">>, <<"y">>}

ElifLists == SeqsUpTo(ElifConds \X CoreBlocks, MaxElifs)

NoElse == [present |-> FALSE, block |-> <<>>]

ElseOptions == {NoElse} \cup {[present |-> TRUE, block |-> b] : b \in CoreBlocks}

IfToks(c, b, es, el) ==
    <<"if">> \o c \o BlockToks(b)
        \o Flat([i \in 1..Len(es) |-> <<"elif">> \o es[i][1] \o BlockToks(es[i][2])])
        \o (IF el.present THEN <<"else">> \o BlockToks(el.block) ELSE <<>>)

(* An if statement is its condition, its then-block, its elif clauses      *)
(* (condition, block) and its else option.                                 *)
IfShapes ==
    (IfConds \X RichBlocks \X {<<>>} \X {NoElse})
        \cup (IfConds \X CoreBlocks \X ElifLists \X ElseOptions)

IfWf(f) ==
    /\ BlockWf(f[2])
    /\ \A i \in 1..Len(f[3]) : BlockWf(f[3][i][2])
    /\ BlockWf(f[4].block)

IfStmts == {Stmt(IfToks(f[1], f[2], f[3], f[4]), "IfStmt", IfWf(f)) : f \in IfShapes}

(* The examples the specification's section 8 spells out.                  *)
SpecExamples ==
    {Stmt(<<"int", "a", "=", "2", "^", "3", "^", "2", ";">>, "Declaration", TRUE),
     Stmt(<<"int", "a", "=", "1", "+", "2", "*", "3", ";">>, "Declaration", TRUE),
     Stmt(<<"int", "a", "=", "1", "-", "2", "-", "3", ";">>, "Declaration", TRUE),
     Stmt(<<"int", "a", ",", "b", "=", "1", ",", "2", ";">>, "Declaration", TRUE),
     Stmt(<<"int", "a", ",", "b", "=", "1", ",", "2", ",", "3", ";">>, "Declaration", FALSE),
     Stmt(<<"int", "a", ",", "b", "=", "1", ";">>, "Declaration", FALSE),
     Stmt(<<"int", ";">>, "Declaration", FALSE),
     Stmt(<<"x", "=", "y", "&&", "z", ";">>, "Assignment", TRUE),
     Stmt(<<"x", "=", "y", "+", "z", ";">>, "Assignment", TRUE),
     Stmt(<<"if", "true", ":", "begin", "x", "=", "1", ";", "end",
            "elif", "false", ":", "begin", "x", "=", "2", ";", "end",
            "else", ":", "begin", "x", "=", "3", ";", "end">>, "IfStmt", TRUE)}

(* Arbitrary token sequences.                                              *)
AllTokens ==
    {"x", "1", "int", "bool", "if", "elif", "else", "begin", "end", "true", "false",
     "+", "-", "*", "/", "%", "^", "++", "--", "=", "+=", "-=", "*=", "/=",
     "==", "!=", ">", "<", ">=", "<=", "&&", "||", "(", ")", ",", ";", ":"}

JunkStmts == {Stmt(j, "junk", FALSE) : j \in SeqsUpTo(AllTokens, MaxJunk) \ {<<>>}}

(* Top-level statements that begin with an identifier: assignments, and a  *)
(* UnaryOp that is not followed by the statement terminator.               *)
IdentStmts ==
    {Stmt(<<"x", "=", "1", ";">>, "Assignment", TRUE),
     Stmt(<<"x", "+=", "2", ";">>, "Assignment", TRUE),
     Stmt(<<"x", "++", "=", "1", ";">>, "Assignment", FALSE),
     Stmt(<<"x", "--", "x", ";">>, "UnaryOp", FALSE)}

(* The forms of a Final with the node the grammar of the language gives    *)
(* each (Null: not a Final), as the initializer of `int a = F ;`.          *)
OnePlusX == BinaryOp("Plus", Final("Number", "1"), Final("Ident", "x"))

FinalCase(toks, node) == [toks |-> toks, node |-> node]

FinalCases ==
    {FinalCase(<<"1">>, Final("Number", "1")),
     FinalCase(<<"x">>, Final("Ident", "x")),
     FinalCase(<<"x", "++">>, UnaryOp("Plus_plus", "x")),
     FinalCase(<<"x", "--">>, UnaryOp("Minus_minus", "x")),
     FinalCase(<<"-", "1">>, SignedNumber("Minus", "1")),
     FinalCase(<<"-", "(", "1", "+", "x", ")">>, NegExpr(OnePlusX)),
     FinalCase(<<"+", "1">>, SignedNumber("Plus", "1")),
     FinalCase(<<"+", "(", "1", "+", "x", ")">>, OnePlusX),
     FinalCase(<<"(", "1", "+", "x", ")">>, OnePlusX),
     FinalCase(<<"(", "x", ")">>, Final("Ident", "x")),
     FinalCase(<<"(", "(", "1", ")", ")">>, Final("Number", "1")),
     FinalCase(<<"(", "1", "+", "x">>, Null),
     FinalCase(<<"-", "(", "1", "+", "x">>, Null),
     FinalCase(<<"+", "(", "1", "+", "x">>, Null),
     FinalCase(<<"-", "x">>, Null),
     FinalCase(<<"(", ")">>, Null),
     FinalCase(<<")">>, Null),
     FinalCase(<<"*", "1">>, Null),
     FinalCase(<<"true">>, Null),
     FinalCase(<<"=", "1">>, Null)}

FinalToks(c) == <<"int", "a", "=">> \o c.toks \o <<";">>

FinalStmts == {Stmt(FinalToks(c), "Declaration", c.node # Null) : c \in FinalCases}

(* Comparisons `E1 relop E2` with the operand trees the grammar gives, as   *)
(* the initializer of `bool b = C ;`: E1 begins with a number, with an     *)
(* identifier or with a parenthesis.                                       *)
RelOps == {"==", "!=", ">", "<", ">=", "<="}

LeftOperands ==
    {FinalCase(<<"1">>, Final("Number", "1")),
     FinalCase(<<"x">>, Final("Ident", "x")),
     FinalCase(<<"(", "1", "+", "x", ")">>, OnePlusX)}

RightOperands ==
    {FinalCase(<<"5">>, Final("Number", "5")),
     FinalCase(<<"y">>, Final("Ident", "y"))}

RelCases ==
    {[toks |-> l.toks \o <<op>> \o r.toks, Left |-> l.node, Right |-> r.node, op |-> op] :
        l \in LeftOperands, r \in RightOperands, op \in RelOps}

BoolDeclToks(e) == <<"bool", "b", "=">> \o e \o <<";">>

ParenLogic == <<"(", "true", "&&", "y", ")">>

ComparisonStmts ==
    {Stmt(BoolDeclToks(c.toks), "Declaration", TRUE) : c \in RelCases}
        \cup {Stmt(BoolDeclToks(<<t>>), "Declaration", TRUE) : t \in {"true", "false", "y"}}
        \cup {Stmt(BoolDeclToks(ParenLogic), "Declaration", TRUE)}

(* Logic expressions with an operand that is no comparison.                 *)
BadLogicSeqs ==
    {<<"true", "&&">>, <<"y", "||", "*">>, <<"&&", "true">>, <<"true", "&&", "y", "||", ")">>}

BadLogicStmts == {Stmt(BoolDeclToks(e), "Declaration", FALSE) : e \in BadLogicSeqs}

(* Statements that multi-statement programs are built from.                *)
CoreStmts ==
    {Stmt(<<"int", "a", ";">>, "Declaration", TRUE),
     Stmt(<<"bool", "b", "=", "true", ";">>, "Declaration", TRUE),
     Stmt(<<"x", "++", ";">>, "UnaryOp", TRUE),
     Stmt(<<"x", "=", "true", ";">>, "Assignment", TRUE),
     Stmt(<<"if", "true", ":", "begin", "end">>, "IfStmt", TRUE),
     Stmt(<<"if", "true", ":", "begin", "end", "else", ":", "begin", "end">>, "IfStmt", TRUE),
     Stmt(<<"if", "true", ":", "begin", "end", "elif", "false", ":", "begin", "end">>,
          "IfStmt", TRUE),
     Stmt(<<"if", "true", ":", "begin", "end", "elif", "false", ":", "begin", "end",
            "else", ":", "begin", "end">>, "IfStmt", TRUE),
     Stmt(<<"int", ";">>, "Declaration", FALSE)}

SingleStmts ==
    ArithStmts \cup LogicStmts \cup DeclStmts \cup UnaryStmts \cup AssignStmts \cup IfStmts
        \cup SpecExamples \cup JunkStmts \cup IdentStmts \cup FinalStmts \cup ComparisonStmts
        \cup BadLogicStmts

Sources == {<<s>> : s \in SingleStmts} \cup SeqsUpTo(CoreStmts, MaxStmts)

WellFormed == \A i \in 1..Len(src) : src[i].wf

----------------------------------------------------------------------------
(* The state machine: Parser::parse, the loop of Parser::parseProgram.     *)

NotReturned == [type |-> "not returned"]

NoRead == [node |-> Null, Op |-> "none"]

(* A Parser is constructed on its lexer and advances once: Tok is the      *)
(* first token, the lexer stands behind it.                                *)
Init ==
    /\ src \in Sources
    /\ input = Flat([i \in 1..Len(src) |-> src[i].toks]) \o <<"eoi">>
    /\ Tok = input[1]
    /\ BufferPtr = IF Len(input) > 1 THEN 2 ELSE 1
    /\ haveElse = FALSE
    /\ data = <<>>
    /\ Res = NotReturned
    /\ pc = "loop"
    /\ errs = 0
    /\ fails = 0
    /\ observed = NoRead

SetState(S) ==
    /\ Tok' = S.Tok
    /\ BufferPtr' = S.BufferPtr
    /\ haveElse' = S.haveElse
    /\ errs' = S.errs
    /\ fails' = S.fails

(* Variant of EndOfCase that skips a failed statement and goes on with the *)
(* loop instead of going to _error.                                        *)
EndOfCase_Resync(R) ==
    /\ IF R.node # Null
       THEN /\ data' = Append(data, R.node)
            /\ SetState(IF R.S.haveElse THEN advance(R.S) ELSE R.S)
       ELSE /\ data' = data
            /\ SetState(R.S)
    /\ pc' = "loop"
    /\ UNCHANGED <<src, input, Res, observed>>

(* Variant of EndOfCase that advances after every statement, whatever      *)
(* haveElse says.                                                          *)
EndOfCase_AlwaysAdvance(R) ==
    /\ IF R.node # Null
       THEN /\ data' = Append(data, R.node)
            /\ SetState(advance(R.S))
            /\ pc' = "loop"
       ELSE /\ data' = data
            /\ SetState(R.S)
            /\ pc' = "_error"
    /\ UNCHANGED <<src, input, Res, observed>>

(* The end of one iteration of the statement loop: the node is pushed and  *)
(* the loop advances if haveElse, or control goes to _error.               *)
EndOfCase(R) ==
    /\ IF R.node # Null
       THEN /\ data' = Append(data, R.node)
            /\ SetState(IF R.S.haveElse THEN advance(R.S) ELSE R.S)
            /\ pc' = "loop"
       ELSE /\ data' = data
            /\ SetState(R.S)
            /\ pc' = "_error"
    /\ UNCHANGED <<src, input, Res, observed>>

LoopEntry == [St EXCEPT !.haveElse = TRUE]

CaseInt ==
    /\ pc = "loop" /\ Kind(Tok) = "int"
    /\ EndOfCase(parseIntDec(LoopEntry))

CaseBool ==
    /\ pc = "loop" /\ Kind(Tok) = "bool"
    /\ EndOfCase(parseBoolDec(LoopEntry))

CaseIdent ==
    /\ pc = "loop" /\ Kind(Tok) = "ident"
    /\ EndOfCase(parseIdentStmt(LoopEntry))

CaseIf ==
    /\ pc = "loop" /\ Kind(Tok) = "if"
    /\ EndOfCase(parseIf(LoopEntry))

(* default: error(); goto _error.  The cases KW_while, KW_for and KW_print *)
(* call routines the sources do not define; no input holds these tokens.   *)
CaseDefault ==
    /\ pc = "loop"
    /\ Kind(Tok) \notin {"eoi", "int", "bool", "ident", "if", "while", "for", "print"}
    /\ EndOfCase(Ret(Null, error(LoopEntry)))

(* The loop condition fails: return new Program(data).                     *)
ReturnProgram ==
    /\ pc = "loop" /\ Kind(Tok) = "eoi"
    /\ Res' = Program(data)
    /\ pc' = "done"
    /\ UNCHANGED <<src, input, Tok, BufferPtr, haveElse, data, errs, fails, observed>>

(* Variant of ErrorExit that returns nullptr without the loop that skips   *)
(* to the end of the input.                                                *)
ErrorExit_NoSkip ==
    /\ pc = "_error"
    /\ SetState([St EXCEPT !.fails = @ + 1])
    /\ Res' = Null
    /\ pc' = "done"
    /\ UNCHANGED <<src, input, data, observed>>

(* _error: skip to the end of the input, return nullptr.                   *)
ErrorExit ==
    /\ pc = "_error"
    /\ SetState(Fail(St).S)
    /\ Res' = Null
    /\ pc' = "done"
    /\ UNCHANGED <<src, input, data, observed>>

(* All nodes of a tree.                                                    *)
SeqRange(q) == {q[i] : i \in 1..Len(q)}

Children(n) ==
    CASE n.type = "Program"     -> SeqRange(n.data)
      [] n.type = "Declaration" -> SeqRange(n.Values)
      [] n.type = "BinaryOp"    -> {n.Left, n.Right}
      [] n.type = "NegExpr"     -> {n.expr}
      [] n.type = "Assignment"  -> {n.Left, n.RightExpr, n.RightLogicExpr}
      [] n.type = "Comparison"  -> {n.Left, n.Right}
      [] n.type = "LogicalExpr" -> {n.Left, n.Right}
      [] n.type = "elifStmt"    -> {n.Cond} \cup SeqRange(n.assignments)
      [] n.type = "IfStmt"      -> {n.Cond} \cup SeqRange(n.ifAssignments)
                                     \cup SeqRange(n.elseAssignments) \cup SeqRange(n.elifStmts)
      [] OTHER -> {}

RECURSIVE Nodes(_)
Nodes(n) == {n} \cup UNION {Nodes(c) : c \in Children(n)}

NodesOf(n, type) == {m \in Nodes(n) : m.type = type}

(* Comparison::getOperator() on a node of the returned tree: the member    *)
(* was never written, the read gives any enumerator.                       *)
getOperator(c) == IF c.Op = Indeterminate THEN ComparisonOperators ELSE {c.Op}

GetOperator ==
    /\ pc = "done" /\ Res # Null /\ observed = NoRead
    /\ \E c \in NodesOf(Res, "Comparison") : \E v \in getOperator(c) :
            observed' = [node |-> c, Op |-> v]
    /\ UNCHANGED <<src, input, Tok, BufferPtr, haveElse, data, Res, pc, errs, fails>>

Next ==
    \/ CaseInt
    \/ CaseBool
    \/ CaseIdent
    \/ CaseIf
    \/ CaseDefault
    \/ ReturnProgram
    \/ ErrorExit
    \/ GetOperator

Spec == Init /\ [][Next]_vars

(* The steps of parse(): one iteration of the statement loop, the return   *)
(* of the Program, the _error label.  A read of a returned tree is the     *)
(* caller's.                                                               *)
ParseStep ==
    \/ CaseInt
    \/ CaseBool
    \/ CaseIdent
    \/ CaseIf
    \/ CaseDefault
    \/ ReturnProgram
    \/ ErrorExit

TypeOK ==
    /\ pc \in {"loop", "_error", "done"}
    /\ BufferPtr \in 1..Len(input)
    /\ haveElse \in BOOLEAN
    /\ errs \in Nat /\ fails \in Nat

----------------------------------------------------------------------------
(* The token sequence a tree stands for (parentheses are not kept by the   *)
(* tree), used to compare returned trees with the source.                  *)

Spelling(op) ==
    CASE op = "Plus" -> "+" [] op = "Minus" -> "-" [] op = "Mul" -> "*"
      [] op = "Div" -> "/" [] op = "Mod" -> "%" [] op = "Exp" -> "^"
      [] op = "Plus_plus" -> "++" [] op = "Minus_minus" -> "--"
      [] op = "And" -> "&&" [] op = "Or" -> "||"
      [] op = "Equal" -> "==" [] op = "Not_equal" -> "!=" [] op = "Greater" -> ">"
      [] op = "Less" -> "<" [] op = "Greater_equal" -> ">=" [] op = "Less_equal" -> "<="
      [] op = "Assign" -> "=" [] op = "Plus_assign" -> "+=" [] op = "Minus_assign" -> "-="
      [] op = "Star_assign" -> "*=" [] op = "Slash_assign" -> "/="

RECURSIVE Unparse(_)
Unparse(n) ==
    CASE n.type = "Final"        -> <<n.Val>>
      [] n.type = "SignedNumber" -> <<Spelling(n.s), n.Value>>
      [] n.type = "UnaryOp"      -> <<n.Ident, Spelling(n.Op)>>
      [] n.type = "NegExpr"      -> <<"-">> \o Unparse(n.expr)
      [] n.type = "BinaryOp"     -> Unparse(n.Left) \o <<Spelling(n.Op)>> \o Unparse(n.Right)
      [] n.type = "LogicalExpr"  -> Unparse(n.Left) \o <<Spelling(n.Op)>> \o Unparse(n.Right)
      [] n.type = "Comparison"   ->
            IF n.Left = Null /\ n.Right = Null THEN <<n.Value>>
            ELSE Unparse(n.Left) \o <<Spelling(n.Opm)>> \o Unparse(n.Right)
      [] n.type = "Assignment"   ->
            Unparse(n.Left) \o <<Spelling(n.AK)>>
                \o (IF n.RightExpr # Null THEN Unparse(n.RightExpr) ELSE <<>>)
                \o (IF n.RightLogicExpr # Null THEN Unparse(n.RightLogicExpr) ELSE <<>>)
      [] OTHER -> <<>>

Done == pc = "done"

Returned == Done /\ Res # Null

InputIs(toks) == input = toks \o <<"eoi">>

----------------------------------------------------------------------------
(* C1.  For every well-formed source, parse() returns a Program and not    *)
(* the absent signal, and the Program holds one node per top-level         *)
(* statement, of the statement's kind, in source order.                    *)
C1_WellFormedParses ==
    (Done /\ WellFormed) =>
        /\ Res # Null
        /\ Len(Res.data) = Len(src)
        /\ \A i \in 1..Len(src) : Res.data[i].type = src[i].kind

----------------------------------------------------------------------------
(* C2.  All-or-nothing abort: once any parse routine has failed (returned  *)
(* through its _error label) or a diagnostic has been reported, the        *)
(* statement loop parses no further statement and parse() does not return  *)
(* a Program: the only result is the absent signal.                        *)
C2_AbortAllOrNothing ==
    (fails > 0 \/ errs > 0) =>
        /\ pc \in {"_error", "done"}
        /\ Res \in {NotReturned, Null}
        /\ Done => Res = Null

(* `int a ; int ;`: a statement was parsed, the next one fails, and the    *)
(* result is absent.                                                       *)
C2_Witness ==
    /\ Done /\ Res = Null /\ fails > 0
    /\ Len(data) = 1
    /\ InputIs(<<"int", "a", ";", "int", ";">>)

----------------------------------------------------------------------------
(* C3.  An assignment `x = R ;` in a block: when R is an arithmetic        *)
(* expression with an operator the Assignment has the arithmetic           *)
(* right-hand side R and no logic right-hand side; when R is `y && z` it   *)
(* has the logic right-hand side R and no arithmetic right-hand side.      *)
BlockAssignInput(c, a) == InputIs(<<"if">> \o c \o <<":", "begin">> \o a \o <<";", "end">>)

C3_AssignDisambiguation ==
    \A c \in IfConds : \A R \in {<<"y", "&&", "z">>, <<"y", "+", "z">>} :
        (Done /\ BlockAssignInput(c, <<"x", "=">> \o R)) =>
            /\ Res # Null
            /\ Len(Res.data) = 1
            /\ Res.data[1].type = "IfStmt"
            /\ Len(Res.data[1].ifAssignments) = 1
            /\ LET A == Res.data[1].ifAssignments[1]
               IN  /\ A.Left = Final("Ident", "x")
                   /\ A.AK = "Assign"
                   /\ (IsArith(R) /\ Len(R) > 1) =>
                        /\ A.RightLogicExpr = Null
                        /\ A.RightExpr # Null
                        /\ Unparse(A.RightExpr) = R
                   /\ R = <<"y", "&&", "z">> =>
                        /\ A.RightExpr = Null
                        /\ A.RightLogicExpr # Null
                        /\ Unparse(A.RightLogicExpr) = R

----------------------------------------------------------------------------
(* C4.  A declaration with n names and m > n initializers fails with a     *)
(* diagnostic; with m = n initializers it yields a Declaration of the n    *)
(* names whose i-th initializer is the tree of the i-th initializer of the *)
(* source.                                                                 *)
C4_InitializerCount ==
    \A kw \in {"int", "bool"} : \A names \in NameLists :
        \A inits \in SeqsUpTo(Initializers(kw), MaxInits) :
            (Done /\ InputIs(DeclToks(kw, names, inits))) =>
                /\ Len(inits) > Len(names) => (Res = Null /\ errs > 0)
                /\ Len(inits) = Len(names) =>
                    /\ Res # Null
                    /\ Len(Res.data) = 1
                    /\ Res.data[1].type = "Declaration"
                    /\ Res.data[1].Vars = names
                    /\ Len(Res.data[1].Values) = Len(inits)
                    /\ \A i \in 1..Len(inits) : Unparse(Res.data[1].Values[i]) = inits[i]

(* `int a , b = 1 , 2 , 3 ;` has been parsed and rejected.                 *)
C4_Witness ==
    /\ Done /\ Res = Null /\ errs > 0
    /\ InputIs(<<"int", "a", ",", "b", "=", "1", ",", "2", ",", "3", ";">>)

----------------------------------------------------------------------------
(* C5.  Every Declaration node the statement loop has pushed has no        *)
(* initializer or exactly as many initializers as names.                   *)
C5_InitializersZeroOrAll ==
    \A i \in 1..Len(data) :
        data[i].type = "Declaration" =>
            Len(data[i].Values) \in {0, Len(data[i].Vars)}

----------------------------------------------------------------------------
(* C6.  For `int a = E ;` with E an arithmetic expression over numbers,    *)
(* identifiers and + - * / % ^, the initializer is the tree of the         *)
(* reference grammar: its leaves and operators read left to right are E,   *)
(* no operand of ^ on the left is a BinaryOp and none on the right binds   *)
(* looser than ^; no operand of * / % binds looser on the left or as loose *)
(* on the right; no right operand of + - is a + or -; and no operand of a  *)
(* BinaryOp is absent.                                                     *)
Level(n) ==
    IF n.type # "BinaryOp" THEN 4
    ELSE IF n.Op \in {"Plus", "Minus"} THEN 1
    ELSE IF n.Op \in {"Mul", "Div", "Mod"} THEN 2
    ELSE 3

GrammarShape(t) ==
    \A n \in NodesOf(t, "BinaryOp") :
        /\ n.Left # Null /\ n.Right # Null
        /\ IF Level(n) = 3
           THEN Level(n.Left) > 3 /\ Level(n.Right) >= 3
           ELSE Level(n.Left) >= Level(n) /\ Level(n.Right) > Level(n)

ArithBody == SubSeq(input, 4, Len(input) - 2)

IsArithDecl ==
    /\ Len(input) >= 6
    /\ SubSeq(input, 1, 3) = <<"int", "a", "=">>
    /\ input[Len(input) - 1] = ";"
    /\ \A i \in 1..Len(ArithBody) : Kind(ArithBody[i]) \in {"number", "ident"} \cup ArithOps
    /\ IsArith(ArithBody)

C6_ExprTreeOfGrammar ==
    (Done /\ IsArithDecl) =>
        /\ Res # Null
        /\ Len(Res.data) = 1
        /\ Res.data[1].type = "Declaration"
        /\ Len(Res.data[1].Values) = 1
        /\ Unparse(Res.data[1].Values[1]) = ArithBody
        /\ GrammarShape(Res.data[1].Values[1])

(* `int a = 2 ^ 3 ^ 2 ;` has been parsed to Pow(2, Pow(3, 2)).            *)
C6_Witness ==
    /\ Returned
    /\ InputIs(<<"int", "a", "=", "2", "^", "3", "^", "2", ";">>)
    /\ Res.data[1].Values[1] =
         BinaryOp("Exp", Final("Number", "2"),
                  BinaryOp("Exp", Final("Number", "3"), Final("Number", "2")))

----------------------------------------------------------------------------
(* C7.  For an if statement with k elif clauses and an optional else block *)
(* whose blocks hold assignments to identifiers, the IfStmt has the `if`   *)
(* condition, the then-assignments in order, k elif clauses in order each  *)
(* with its condition and its assignments, and the else-assignments in     *)
(* order (none without an else).                                           *)
BlockMatches(assignments, b) ==
    /\ Len(assignments) = Len(b)
    /\ \A i \in 1..Len(b) : Unparse(assignments[i]) \o <<";">> = b[i].toks

C7_IfStructure ==
    \A f \in IfShapes :
        (Done /\ IfWf(f) /\ InputIs(IfToks(f[1], f[2], f[3], f[4]))) =>
            /\ Res # Null
            /\ Len(Res.data) = 1
            /\ Res.data[1].type = "IfStmt"
            /\ LET I == Res.data[1]
               IN  /\ I.Cond # Null
                   /\ Unparse(I.Cond) = f[1]
                   /\ BlockMatches(I.ifAssignments, f[2])
                   /\ Len(I.elifStmts) = Len(f[3])
                   /\ \A i \in 1..Len(f[3]) :
                        /\ I.elifStmts[i].Cond # Null
                        /\ Unparse(I.elifStmts[i].Cond) = f[3][i][1]
                        /\ BlockMatches(I.elifStmts[i].assignments, f[3][i][2])
                   /\ BlockMatches(I.elseAssignments, f[4].block)

----------------------------------------------------------------------------
(* C8.  Whenever parse() has returned the absent signal, at least one      *)
(* diagnostic has been reported.                                           *)
C8_NoSilentFailure == (Done /\ Res = Null) => errs > 0

----------------------------------------------------------------------------
(* C9.  Every Assignment node of the statements parsed so far, at top      *)
(* level or in a block, has a Final of kind Identifier as its target.      *)
C9_AssignmentTargetIsIdentifier ==
    \A A \in NodesOf(Program(data), "Assignment") :
        A.Left.type = "Final" /\ A.Left.Kind = "Ident"

----------------------------------------------------------------------------
(* C10.  A Comparison node of the returned tree, read through              *)
(* getOperator(): built from true, false or an identifier it has no        *)
(* operands, the matching literal/identifier operator and the token's      *)
(* spelling as text; otherwise it has both operands and getOperator()      *)
(* gives the relational operator read between them.                        *)
C10_ComparisonOperatorStored ==
    observed # NoRead =>
        LET c == observed.node
        IN  IF c.Opm \in {"True", "False", "Ident"}
            THEN /\ c.Left = Null /\ c.Right = Null
                 /\ observed.Op = c.Opm
                 /\ Kind(c.Value) = (IF c.Opm = "Ident" THEN "ident"
                                     ELSE IF c.Opm = "True" THEN "true" ELSE "false")
            ELSE /\ c.Left # Null /\ c.Right # Null
                 /\ observed.Op = c.Opm

----------------------------------------------------------------------------
(* C11.  A top-level statement that begins with an identifier: `x ++ ;`    *)
(* and `x -- ;` yield the UnaryOp; `x = 1 ;` and `x += 2 ;` are parsed as   *)
(* an Assignment after the trial parse of a UnaryOp has failed, and each    *)
(* yields the Assignment node of its target, operator and right-hand side. *)
C11_IdentStatement ==
    /\ \A op \in {"++", "--"} :
          (Done /\ InputIs(<<"x", op, ";">>)) =>
              /\ Res # Null
              /\ Res.data = <<UnaryOp(IF op = "++" THEN "Plus_plus" ELSE "Minus_minus", "x")>>
    /\ (Done /\ InputIs(<<"x", "=", "1", ";">>)) =>
          /\ Res # Null
          /\ Res.data = <<Assignment(Final("Ident", "x"), Final("Number", "1"), "Assign", Null)>>
    /\ (Done /\ InputIs(<<"x", "+=", "2", ";">>)) =>
          /\ Res # Null
          /\ Res.data =
               <<Assignment(Final("Ident", "x"), Final("Number", "2"), "Plus_assign", Null)>>

----------------------------------------------------------------------------
(* C12.  Whenever the statement loop of parseProgram is about to test its  *)
(* condition, the statements parsed so far are the first statements of the *)
(* source, one node each, and the current token is the first token of the  *)
(* next statement (end of input after the last), with the token source     *)
(* standing right behind it: after a declaration or a UnaryOp the loop has *)
(* advanced past `;`, after an IfStmt of any of the four shapes it stands  *)
(* behind the final `end`, whatever statements came before.                *)
StmtStart(k) == 1 + Len(Flat([i \in 1..(k - 1) |-> src[i].toks]))

C12_LoopStartsAtNextStatement ==
    pc = "loop" =>
        /\ Len(data) <= Len(src)
        /\ \A i \in 1..Len(data) : data[i].type = src[i].kind
        /\ LET next == StmtStart(Len(data) + 1)
           IN  /\ Tok = input[next]
               /\ BufferPtr = IF next < Len(input) THEN next + 1 ELSE Len(input)

(* `if true : begin end  int a ;`: an IfStmt without else, for which the    *)
(* loop does not advance, then a declaration, for which it does; the loop  *)
(* stands at the end of the input.                                         *)
C12_Witness ==
    /\ pc = "loop"
    /\ InputIs(<<"if", "true", ":", "begin", "end", "int", "a", ";">>)
    /\ Len(data) = 2
    /\ data[1].type = "IfStmt" /\ data[2].type = "Declaration"
    /\ Kind(Tok) = "eoi"

----------------------------------------------------------------------------
(* C13.  parseFinal on each form of a Final, as the initializer of         *)
(* `int a = F ;`: a number, an identifier, an identifier with ++ or --,    *)
(* a signed number, - ( Expr ), + ( Expr ) and ( Expr ) yield the node of  *)
(* the form and leave the cursor on the `;` behind it; any other start     *)
(* token or a missing `)` yields absent.                                   *)
C13_FinalForms ==
    \A c \in FinalCases :
        (Done /\ InputIs(FinalToks(c))) =>
            IF c.node = Null THEN Res = Null
            ELSE /\ Res # Null
                 /\ Res.data = <<Declaration(<<"a">>, <<c.node>>)>>

----------------------------------------------------------------------------
(* C14.  parseComparison, as the initializer of `bool b = C ;`: for        *)
(* `E1 relop E2` with any of the six relational operators, E1 beginning    *)
(* with a number, an identifier or a parenthesis, it yields a Comparison   *)
(* whose operands are the trees of E1 and E2 and whose operator argument   *)
(* is the operator read; for a lone `true`, `false` or identifier it       *)
(* yields a Comparison without operands that holds the spelling; for a     *)
(* parenthesized logic expression it yields the inner logic node.          *)
C14_ComparisonForms ==
    /\ \A c \in RelCases :
          (Done /\ InputIs(BoolDeclToks(c.toks))) =>
              /\ Res # Null
              /\ Len(Res.data) = 1
              /\ Res.data[1].type = "Declaration"
              /\ Len(Res.data[1].Values) = 1
              /\ LET v == Res.data[1].Values[1]
                 IN  /\ v.type = "Comparison"
                     /\ v.Left = c.Left
                     /\ v.Right = c.Right
                     /\ v.Opm = RelOp(c.op)
    /\ \A t \in {"true", "false", "y"} :
          (Done /\ InputIs(BoolDeclToks(<<t>>))) =>
              /\ Res # Null
              /\ Len(Res.data[1].Values) = 1
              /\ LET v == Res.data[1].Values[1]
                 IN  /\ v.type = "Comparison"
                     /\ v.Left = Null /\ v.Right = Null
                     /\ v.Value = t
    /\ (Done /\ InputIs(BoolDeclToks(ParenLogic))) =>
          /\ Res # Null
          /\ Res.data[1].Values =
               <<LogicalExpr(Comparison(Null, Null, "True", "true"),
                             Comparison(Null, Null, "Ident", "y"), "And")>>

----------------------------------------------------------------------------
(* C15.  parseLogic, as the initializer of `bool b = L ;`: for comparisons *)
(* C1 .. Cn joined by n - 1 >= 1 operators && and || in any mix it yields  *)
(* the left-nested tree: read left to right the tree is L, every           *)
(* LogicalExpr has two operands, the left one a Comparison or a            *)
(* LogicalExpr and the right one a Comparison; with an operand that is no  *)
(* comparison the result is absent.                                        *)
LeftNested(t) ==
    \A n \in NodesOf(t, "LogicalExpr") :
        /\ n.Left # Null /\ n.Right # Null
        /\ n.Left.type \in {"Comparison", "LogicalExpr"}
        /\ n.Right.type = "Comparison"

LogicChains == UNION {ComparandChains(k) : k \in 1..MaxLogicOps}

C15_LogicLeftNested ==
    /\ \A e \in LogicChains :
          (Done /\ InputIs(BoolDeclToks(e))) =>
              /\ Res # Null
              /\ Len(Res.data) = 1
              /\ Res.data[1].type = "Declaration"
              /\ Len(Res.data[1].Values) = 1
              /\ Res.data[1].Values[1].type = "LogicalExpr"
              /\ Unparse(Res.data[1].Values[1]) = e
              /\ LeftNested(Res.data[1].Values[1])
    /\ \A e \in BadLogicSeqs : (Done /\ InputIs(BoolDeclToks(e))) => Res = Null

----------------------------------------------------------------------------
(* C16.  parse() terminates on every source: it takes only finitely many   *)
(* steps, and as long as it has not returned a step applies (the loop      *)
(* exit, a case of the switch or the _error label); an iteration of the    *)
(* statement loop that goes on with the loop has moved the token source    *)
(* forward; and when parse() has returned, a Program or absent, the        *)
(* current token is the end of input and the token source is exhausted.    *)
LoopConsumes == (pc = "loop" /\ pc' = "loop") => BufferPtr' > BufferPtr

StepApplies ==
    \/ pc = "_error"
    \/ pc = "loop" /\ Kind(Tok) \in {"eoi", "int", "bool", "ident", "if"}
    \/ pc = "loop" /\ Kind(Tok) \notin {"eoi", "int", "bool", "ident", "if",
                                         "while", "for", "print"}

C16_Terminates ==
    /\ <>[][~ParseStep]_vars
    /\ [](~Done => StepApplies)
    /\ [][LoopConsumes]_vars
    /\ [](Done => (Kind(Tok) = "eoi" /\ BufferPtr = Len(input)))

(* `; x` has been rejected by the default case and the error path has      *)
(* skipped both tokens.                                                    *)
C16_Witness ==
    /\ Done /\ Res = Null
    /\ InputIs(<<";", "x">>)
    /\ Kind(Tok) = "eoi"

====
